---- MODULE Spec2Model ----
(***************************************************************************)
(* A model of string-analyzer (src/main.py): a FastAPI service that        *)
(* analyses strings and stores them in one SQLite table keyed by the       *)
(* SHA-256 of the value.                                                   *)
(*                                                                         *)
(* A Python str is a sequence of one-character strings, a Python dict      *)
(* with a fixed key set is a record, a sparse dict is a function whose     *)
(* domain is the set of keys present, and the character frequency map is   *)
(* the sequence of its <<key, count>> items in insertion order.            *)
(*                                                                         *)
(* A statement that needs SQLite's write lock waits while another          *)
(* connection holds it; the wait is taken to end within the busy timeout   *)
(* of sqlite3.connect, so "database is locked" is not an outcome here.     *)
(* Spec and SeqSpec call the endpoints as functions; HttpSpec puts the     *)
(* router in front of them; UnitSpec calls the pure functions directly.    *)
(***************************************************************************)
EXTENDS Integers, Sequences, FiniteSets, TLC

VARIABLES
    table,   \* the rows of table `strings`, in rowid (insertion) order
    lock,    \* the connection holding SQLite's write lock, or NoClient
    pc,      \* per client: where its request handler stands
    req,     \* per client: the locals of the handler in flight
    last,    \* the response most recently sent
    unit     \* the most recent direct call of a pure function, with its result

vars == <<table, lock, pc, req, last, unit>>

\* ------------------------------------------------------------ bounds

NumClients == 2
MaxTime == 2
MaxLen == 3
MaxBound == 2
MaxFrags == 3

\* ------------------------------------------------------------ strings

Uppers == <<"A", "B", "C", "D", "E", "F", "G", "H", "I", "J", "K", "L", "M",
            "N", "O", "P", "Q", "R", "S", "T", "U", "V", "W", "X", "Y", "Z">>

\* the characters matched by [a-z]
Letters == <<"a", "b", "c", "d", "e", "f", "g", "h", "i", "j", "k", "l", "m",
             "n", "o", "p", "q", "r", "s", "t", "u", "v", "w", "x", "y", "z">>

IsUpper(ch) == \E i \in 1..26 : Uppers[i] = ch

IsLetter(ch) == \E i \in 1..26 : Letters[i] = ch

\* str.lower() on one character
Lower(ch) ==
    IF IsUpper(ch) THEN Letters[CHOOSE i \in 1..26 : Uppers[i] = ch] ELSE ch

LowerStr(s) == [i \in 1..Len(s) |-> Lower(s[i])]

\* the characters matched by \s, removed by str.strip() and split on by str.split()
Whitespace == {" ", "\t"}

IsSpace(ch) == ch \in Whitespace

Digits == <<"0", "1", "2", "3", "4", "5", "6", "7", "8", "9">>

IsDigit(ch) == \E i \in 1..10 : Digits[i] = ch

DigitValue(ch) == (CHOOSE i \in 1..10 : Digits[i] = ch) - 1

Reverse(s) == [i \in 1..Len(s) |-> s[Len(s) + 1 - i]]

\* re.sub(r"\s+", "", value)
RemoveSpace(s) == SelectSeq(s, LAMBDA ch : ~IsSpace(ch))

\* str.strip()
RECURSIVE LStrip(_)
LStrip(s) == IF s # <<>> /\ IsSpace(Head(s)) THEN LStrip(Tail(s)) ELSE s

Strip(s) == Reverse(LStrip(Reverse(LStrip(s))))

\* len(value.split()): the number of maximal runs of non-whitespace
SplitCount(s) ==
    Cardinality({i \in 1..Len(s) : ~IsSpace(s[i]) /\ (i = 1 \/ IsSpace(s[i - 1]))})

\* ------------------------------------------------------------ analysis

\* The UTF-8 code of the characters the model uses (all of them ASCII).
Utf8Code(ch) ==
    CASE ch = " " -> 32 [] ch = "\t" -> 9 [] ch = "-" -> 45 [] ch = "/" -> 47
      [] IsUpper(ch) -> 64 + (CHOOSE n \in 1..26 : Uppers[n] = ch)
      [] IsDigit(ch) -> 48 + DigitValue(ch)
      [] OTHER -> 96 + (CHOOSE n \in 1..26 : Letters[n] = ch)

\* hashlib.sha256(value.encode("utf-8")).hexdigest(). The digest is modelled
\* by the encoded bytes themselves: a function of the value alone, and
\* collision-free as SHA-256 is taken to be.
sha256_hash(value) == [i \in 1..Len(value) |-> Utf8Code(value[i])]

is_palindrome(value) ==
    LET s == LowerStr(RemoveSpace(value)) IN s = Reverse(s)

\* d[k] = v on a dict held as its items in insertion order
DictSet(d, k, v) ==
    IF \E i \in 1..Len(d) : d[i][1] = k
    THEN [i \in 1..Len(d) |-> IF d[i][1] = k THEN <<k, v>> ELSE d[i]]
    ELSE Append(d, <<k, v>>)

\* d.get(k, default)
DictGet(d, k, default) ==
    IF \E i \in 1..Len(d) : d[i][1] = k
    THEN d[CHOOSE i \in 1..Len(d) : d[i][1] = k][2]
    ELSE default

RECURSIVE character_frequency_map(_)
character_frequency_map(value) ==
    IF value = <<>> THEN <<>>
    ELSE LET freq == character_frequency_map(SubSeq(value, 1, Len(value) - 1))
             ch == value[Len(value)]
         IN  DictSet(freq, ch, DictGet(freq, ch, 0) + 1)

analyze_string(value) ==
    [length |-> Len(value),
     is_palindrome |-> is_palindrome(value),
     unique_characters |-> Cardinality({value[i] : i \in 1..Len(value)}),
     word_count |-> IF Strip(value) = <<>> THEN 0 ELSE SplitCount(value),
     sha256_hash |-> sha256_hash(value),
     character_frequency_map |-> character_frequency_map(value)]

\* ------------------------------------------------------------ JSON

\* json.dumps(props): the JSON text, as its tree of members in key order. A
\* JSON value carries its JSON type; the keys of an object are strings.
json_dumps(props) ==
    <<"object",
      << <<"length", <<"number", props.length>> >>,
         <<"is_palindrome", IF props.is_palindrome THEN <<"true">> ELSE <<"false">> >>,
         <<"unique_characters", <<"number", props.unique_characters>> >>,
         <<"word_count", <<"number", props.word_count>> >>,
         <<"sha256_hash", <<"string", props.sha256_hash>> >>,
         <<"character_frequency_map",
           <<"object",
             [i \in 1..Len(props.character_frequency_map) |->
                <<props.character_frequency_map[i][1],
                  <<"number", props.character_frequency_map[i][2]>> >>] >> >> >> >>

\* the value of member `name` of a JSON object (of a repeated name, the last)
JsonMember(obj, name) ==
    LET ms == obj[2]
        k == CHOOSE i \in 1..Len(ms) :
                 ms[i][1] = name /\ \A j \in (i + 1)..Len(ms) : ms[j][1] # name
    IN  ms[k][2]

\* the frequency map built with its keys lowered: keys that differ in case merge
RECURSIVE JsonNumberDictLowered(_)
JsonNumberDictLowered(ms) ==
    IF ms = <<>> THEN <<>>
    ELSE LET m == ms[Len(ms)]
         IN  DictSet(JsonNumberDictLowered(SubSeq(ms, 1, Len(ms) - 1)),
                     Lower(m[1]), m[2][2])

\* the dict json.loads builds from the members of a JSON object of numbers
RECURSIVE JsonNumberDict(_)
JsonNumberDict(ms) ==
    IF ms = <<>> THEN <<>>
    ELSE LET m == ms[Len(ms)]
         IN  DictSet(JsonNumberDict(SubSeq(ms, 1, Len(ms) - 1)), m[1], m[2][2])

\* json.loads(text), for the text of a properties object
json_loads(text) ==
    [length |-> JsonMember(text, "length")[2],
     is_palindrome |-> JsonMember(text, "is_palindrome") = <<"true">>,
     unique_characters |-> JsonMember(text, "unique_characters")[2],
     word_count |-> JsonMember(text, "word_count")[2],
     sha256_hash |-> JsonMember(text, "sha256_hash")[2],
     character_frequency_map |->
         JsonNumberDict(JsonMember(text, "character_frequency_map")[2])]

\* ------------------------------------------------------------ filter engine

NoFilters == <<>>

Has(filters, name) == name \in DOMAIN filters

\* the bounds compared strictly
apply_filters_row_strict(props, filters) ==
    IF Has(filters, "is_palindrome")
       /\ props.is_palindrome # filters["is_palindrome"] THEN FALSE
    ELSE IF Has(filters, "min_length")
       /\ props.length <= filters["min_length"] THEN FALSE
    ELSE IF Has(filters, "max_length")
       /\ props.length >= filters["max_length"] THEN FALSE
    ELSE IF Has(filters, "word_count")
       /\ props.word_count # filters["word_count"] THEN FALSE
    ELSE IF Has(filters, "contains_character")
       /\ Len(filters["contains_character"]) # 1 THEN FALSE
    ELSE IF Has(filters, "contains_character")
       /\ ~\E i \in 1..Len(props.character_frequency_map) :
              props.character_frequency_map[i][1] = filters["contains_character"][1]
       THEN FALSE
    ELSE TRUE

apply_filters_row(props, filters) ==
    IF Has(filters, "is_palindrome")
       /\ props.is_palindrome # filters["is_palindrome"] THEN FALSE
    ELSE IF Has(filters, "min_length")
       /\ props.length < filters["min_length"] THEN FALSE
    ELSE IF Has(filters, "max_length")
       /\ props.length > filters["max_length"] THEN FALSE
    ELSE IF Has(filters, "word_count")
       /\ props.word_count # filters["word_count"] THEN FALSE
    ELSE IF Has(filters, "contains_character")
       /\ Len(filters["contains_character"]) # 1 THEN FALSE
    ELSE IF Has(filters, "contains_character")
       /\ ~\E i \in 1..Len(props.character_frequency_map) :
              props.character_frequency_map[i][1] = filters["contains_character"][1]
       THEN FALSE
    ELSE TRUE

\* ------------------------------------------------------------ natural language

\* pat occurs in s at position i
MatchAt(s, pat, i) ==
    /\ i + Len(pat) - 1 <= Len(s)
    /\ \A j \in 1..Len(pat) : s[i + j - 1] = pat[j]

\* `pat in s`
Contains(s, pat) == \E i \in 1..(Len(s) + 1) : MatchAt(s, pat, i)

\* int() of the longest run of digits of s that starts at position i
RECURSIVE DigitRun(_, _, _)
DigitRun(s, i, acc) ==
    IF i <= Len(s) /\ IsDigit(s[i])
    THEN DigitRun(s, i + 1, acc * 10 + DigitValue(s[i]))
    ELSE acc

\* the positions where pat followed by a digit matches: re.search(pat + r"(\d+)", s)
\* takes the leftmost
NumberAfter(s, pat) ==
    {i \in 1..Len(s) : MatchAt(s, pat, i) /\ i + Len(pat) <= Len(s)
                                           /\ IsDigit(s[i + Len(pat)])}

Min(S) == CHOOSE x \in S : \A y \in S : x <= y

\* group(1) of re.search(pat + r"(\d+)", s), as an int
CapturedNumber(s, pat) == DigitRun(s, Min(NumberAfter(s, pat)) + Len(pat), 0)

LongerThan == <<"l", "o", "n", "g", "e", "r", " ", "t", "h", "a", "n", " ">>
StringsLongerThan == <<"s", "t", "r", "i", "n", "g", "s", " ">> \o LongerThan
SingleWord == <<"s", "i", "n", "g", "l", "e", " ", "w", "o", "r", "d">>
OneWord == <<"o", "n", "e", " ", "w", "o", "r", "d">>
Palindrom == <<"p", "a", "l", "i", "n", "d", "r", "o", "m">>
Contain == <<"c", "o", "n", "t", "a", "i", "n">>
TheLetter == <<" ", "t", "h", "e", " ", "l", "e", "t", "t", "e", "r", " ">>

\* the stems contain(?:ing|s)? the letter
ContainStems ==
    {Contain \o TheLetter,
     Contain \o <<"i", "n", "g">> \o TheLetter,
     Contain \o <<"s">> \o TheLetter}

\* the matches of r"contain(?:ing|s)? the letter ([a-z])" in s, each as
\* <<start, position of the group>>
LetterMatches(s) ==
    UNION {{<<i, i + Len(stem)>> :
               i \in {k \in 1..Len(s) : /\ MatchAt(s, stem, k)
                                        /\ k + Len(stem) <= Len(s)
                                        /\ IsLetter(s[k + Len(stem)])}} :
           stem \in ContainStems}

\* the parse of filter_by_nl: the dict `parsed`
parse_nl(query) ==
    LET q == Strip(LowerStr(query))
        p1 == IF Contains(q, SingleWord) \/ Contains(q, OneWord)
              THEN ("word_count" :> 1) ELSE NoFilters
        p2 == IF Contains(q, Palindrom)
              THEN ("is_palindrome" :> TRUE) @@ p1 ELSE p1
        p3 == IF NumberAfter(q, LongerThan) # {}
              THEN ("min_length" :> (CapturedNumber(q, LongerThan) + 0)) @@ p2
              ELSE p2
        p4 == IF NumberAfter(q, StringsLongerThan) # {}
              THEN ("min_length" :> (CapturedNumber(q, StringsLongerThan) + 1)) @@ p3
              ELSE p3
        ms == LetterMatches(q)
        p5 == IF ms # {}
              THEN LET m == CHOOSE x \in ms : \A y \in ms : x[1] <= y[1]
                   IN  ("contains_character" :> <<q[m[2]]>>) @@ p4
              ELSE p4
    IN  p5

\* ------------------------------------------------------------ the table

Clients == 1..NumClients
NoClient == 0
Times == 1..MaxTime

\* the strings the clients send when they run concurrently
ConcurrentValues == {<<"A", " ", "a">>, <<"a", "b">>}

\* the strings the clients send when they run one at a time
Values == ConcurrentValues \cup {<<>>}

\* the lookup that compares column `value`, not column `id`, with the digest:
\* a digest is never the text of the value it was taken of, so no row is found
SelectByValue(rows, sid) == SelectSeq(rows, LAMBDA r : r.id = sid /\ r.id # sha256_hash(r.value))

\* SELECT ... FROM strings WHERE id = ?
SelectById(rows, sid) == SelectSeq(rows, LAMBDA r : r.id = sid)

\* the table declared without its primary key
NoPrimaryKey(rows, sid) == FALSE

\* id TEXT PRIMARY KEY: an INSERT of a row whose id is in the table fails
PrimaryKeyConflict(rows, sid) == \E i \in 1..Len(rows) : rows[i].id = sid

\* the DELETE without its WHERE clause
DeleteEveryRow(rows, sid) == IF PrimaryKeyConflict(rows, sid) THEN <<>> ELSE rows

\* DELETE FROM strings WHERE id = ?
DeleteById(rows, sid) == SelectSeq(rows, LAMBDA r : r.id # sid)

\* the INSERT keyed by the hash of the lowered value
InsertedRowLoweredId(payload) ==
    [id |-> sha256_hash(LowerStr(payload.value)), value |-> payload.value,
     properties |-> json_dumps(payload.properties),
     created_at |-> payload.created_at]

\* INSERT INTO strings (id, value, properties, created_at) VALUES (?, ?, ?, ?)
InsertedRow(payload) ==
    [id |-> payload.id, value |-> payload.value,
     properties |-> json_dumps(payload.properties),
     created_at |-> payload.created_at]

\* the record a handler returns for a row
RowRecord(row) ==
    [id |-> row.id, value |-> row.value,
     properties |-> json_loads(row.properties), created_at |-> row.created_at]

\* the loop of list_strings and filter_by_nl over SELECT ... FROM strings
FilterRows(rows, filters) ==
    LET kept == SelectSeq(rows,
                    LAMBDA r : apply_filters_row(json_loads(r.properties), filters))
    IN  [i \in 1..Len(kept) |-> RowRecord(kept[i])]

\* ------------------------------------------------------------ requests and responses

StringsSeg == <<"s", "t", "r", "i", "n", "g", "s">>
NlSeg == <<"f", "i", "l", "t", "e", "r", "-", "b", "y", "-", "n", "a", "t", "u",
           "r", "a", "l", "-", "l", "a", "n", "g", "u", "a", "g", "e">>

\* An HTTP request: the method, the path as its segments, the JSON body (a
\* dict), the query parameters of GET /strings (a dict), and query parameter
\* `query` (a dict).
Request(method, path, body, params, query) ==
    [method |-> method, path |-> path, body |-> body, params |-> params,
     query |-> query]

NoRequest == Request("", <<>>, NoFilters, NoFilters, NoFilters)

Post(value) == Request("POST", <<StringsSeg>>, "value" :> value, NoFilters, NoFilters)
PostEmpty == Request("POST", <<StringsSeg>>, NoFilters, NoFilters, NoFilters)
Get(value) == Request("GET", <<StringsSeg, value>>, NoFilters, NoFilters, NoFilters)
Delete(value) == Request("DELETE", <<StringsSeg, value>>, NoFilters, NoFilters, NoFilters)
List(params) == Request("GET", <<StringsSeg>>, NoFilters, params, NoFilters)
NlFilter(q) == Request("GET", <<StringsSeg, NlSeg>>, NoFilters, NoFilters, "query" :> q)
DeleteAll == Request("DELETE", <<StringsSeg>>, NoFilters, NoFilters, NoFilters)
GetUnrouted == Request("GET", <<NlSeg>>, NoFilters, NoFilters, NoFilters)

NoBody == <<>>
Idle == [op |-> "none"]

\* a response, with the request it answers and the endpoint that handled it
Response(request, endpoint, status, body) ==
    [request |-> request, endpoint |-> endpoint, status |-> status, body |-> body]

Detail(msg) == [detail |-> msg]

\* ------------------------------------------------------------ routing

Literal(text) == [kind |-> "literal", text |-> text]
Param == [kind |-> "param", text |-> <<>>]

\* the routes in the order the decorators register them
Routes ==
    << [method |-> "POST", path |-> <<Literal(StringsSeg)>>,
        endpoint |-> "create_string"],
       [method |-> "GET", path |-> <<Literal(StringsSeg), Param>>,
        endpoint |-> "get_string"],
       [method |-> "GET", path |-> <<Literal(StringsSeg)>>,
        endpoint |-> "list_strings"],
       [method |-> "GET", path |-> <<Literal(StringsSeg), Literal(NlSeg)>>,
        endpoint |-> "filter_by_nl"],
       [method |-> "DELETE", path |-> <<Literal(StringsSeg), Param>>,
        endpoint |-> "delete_string"] >>

\* a path parameter matches one non-empty segment
PathMatches(template, path) ==
    /\ Len(template) = Len(path)
    /\ \A i \in 1..Len(template) :
          IF template[i].kind = "literal"
          THEN path[i] = template[i].text
          ELSE path[i] # <<>>

\* The router takes the first route, in registration order, whose path and
\* method both match; a path that matches under another method only is 405,
\* a path no route matches is 404.
Dispatch(method, path) ==
    LET full == {i \in 1..Len(Routes) : /\ PathMatches(Routes[i].path, path)
                                        /\ Routes[i].method = method}
        partial == {i \in 1..Len(Routes) : PathMatches(Routes[i].path, path)}
    IN  IF full # {} THEN Routes[Min(full)].endpoint
        ELSE IF partial # {} THEN "method_not_allowed"
        ELSE "not_found"

\* ------------------------------------------------------------ state

Init ==
    /\ table = <<>>
    /\ lock = NoClient
    /\ pc = [c \in Clients |-> "idle"]
    /\ req = [c \in Clients |-> Idle]
    /\ last = Response(NoRequest, "none", 0, NoBody)
    /\ unit = [fn |-> "none"]

\* ------------------------------------------------------------ POST /strings

\* create_string up to the SELECT: the validation of the body against
\* CreateStringReq, the analysis, the payload, the existence check
create_string(c, r, now) ==
    IF ~Has(r.body, "value")
    THEN /\ last' = Response(r, "create_string", 422, Detail("Field required"))
         /\ UNCHANGED <<table, lock, pc, req>>
    ELSE
    LET value == r.body["value"]
        props == analyze_string(value)
        sid == props.sha256_hash
        payload == [id |-> sid, value |-> value, properties |-> props,
                    created_at |-> now]
    IN  /\ IF SelectById(table, sid) # <<>>
           THEN /\ last' = Response(r, "create_string", 409,
                                    Detail("String already exists"))
                /\ UNCHANGED <<pc, req>>
           ELSE /\ pc' = [pc EXCEPT ![c] = "insert"]
                /\ req' = [req EXCEPT ![c] = [op |-> "create", request |-> r,
                                               payload |-> payload]]
                /\ UNCHANGED last
        /\ UNCHANGED <<table, lock>>

\* the INSERT statement, which opens the transaction and takes the write lock
\* (waiting while another connection holds it); a primary key conflict raises
\* sqlite3.IntegrityError, which `with conn` rolls back and nothing catches:
\* the framework answers 500
create_insert(c) ==
    /\ pc[c] = "insert"
    /\ lock = NoClient
    /\ IF PrimaryKeyConflict(table, req[c].payload.id)
       THEN /\ last' = Response(req[c].request, "create_string", 500,
                                Detail("Internal Server Error"))
            /\ pc' = [pc EXCEPT ![c] = "idle"]
            /\ req' = [req EXCEPT ![c] = Idle]
            /\ UNCHANGED lock
       ELSE /\ lock' = c
            /\ pc' = [pc EXCEPT ![c] = "commit"]
            /\ UNCHANGED <<req, last>>
    /\ UNCHANGED <<table, unit>>

\* the commit at the end of `with conn`, and the return of the payload
create_commit(c) ==
    LET payload == req[c].payload
    IN  /\ pc[c] = "commit"
        /\ lock = c
        /\ table' = Append(table, InsertedRow(payload))
        /\ lock' = NoClient
        /\ pc' = [pc EXCEPT ![c] = "idle"]
        /\ req' = [req EXCEPT ![c] = Idle]
        /\ last' = Response(req[c].request, "create_string", 201, payload)
        /\ UNCHANGED unit

\* ------------------------------------------------------------ GET /strings/{string_value}

get_string(c, r) ==
    LET string_value == r.path[2]
        sid == sha256_hash(string_value)
        rows == SelectById(table, sid)
    IN  /\ last' = IF rows = <<>>
                   THEN Response(r, "get_string", 404, Detail("String not found"))
                   ELSE Response(r, "get_string", 200, RowRecord(rows[1]))
        /\ UNCHANGED <<table, lock, pc, req>>

\* ------------------------------------------------------------ GET /strings

\* Query(None, ge=0) and Query(None, min_length=1, max_length=1)
ParamsValid(params) ==
    /\ \A name \in {"min_length", "max_length", "word_count"} :
          Has(params, name) => params[name] >= 0
    /\ Has(params, "contains_character") => Len(params["contains_character"]) = 1

list_strings(c, r) ==
    LET filters == r.params
        results == FilterRows(table, filters)
    IN  /\ last' = IF ~ParamsValid(r.params)
                   THEN Response(r, "list_strings", 422, Detail("Validation error"))
                   ELSE Response(r, "list_strings", 200,
                                 [data |-> results, count |-> Len(results),
                                  filters_applied |-> filters])
        /\ UNCHANGED <<table, lock, pc, req>>

\* ------------------------------------------------------------ GET /strings/filter-by-natural-language

\* the response of filter_by_nl to `query` over the rows of the table
filter_by_nl_response(r, rows) ==
    IF ~Has(r.query, "query")
    THEN Response(r, "filter_by_nl", 422, Detail("Field required"))
    ELSE LET query == r.query["query"]
             parsed == parse_nl(query)
             results == FilterRows(rows, parsed)
         IN  IF DOMAIN parsed = {}
             THEN Response(r, "filter_by_nl", 400,
                           Detail("Unable to parse natural language query"))
             ELSE Response(r, "filter_by_nl", 200,
                           [data |-> results, count |-> Len(results),
                            interpreted_query |->
                                [original |-> query, parsed_filters |-> parsed]])

filter_by_nl(c, r) ==
    /\ last' = filter_by_nl_response(r, table)
    /\ UNCHANGED <<table, lock, pc, req>>

\* ------------------------------------------------------------ DELETE /strings/{string_value}

\* the DELETE statement, which opens the transaction and takes the write lock
\* (waiting while another connection holds it); with rowcount 0 the handler
\* raises 404 and `with conn` rolls back
delete_string(c, r) ==
    LET string_value == r.path[2]
        sid == sha256_hash(string_value)
        rowcount == Len(table) - Len(DeleteById(table, sid))
    IN  /\ lock = NoClient
        /\ IF rowcount = 0
           THEN /\ last' = Response(r, "delete_string", 404,
                                    Detail("String not found"))
                /\ UNCHANGED <<lock, pc, req>>
           ELSE /\ lock' = c
                /\ pc' = [pc EXCEPT ![c] = "delete_commit"]
                /\ req' = [req EXCEPT ![c] = [op |-> "delete", request |-> r,
                                               sid |-> sid]]
                /\ UNCHANGED last
        /\ UNCHANGED table

\* the commit at the end of `with conn`, and the empty 204
delete_commit(c) ==
    /\ pc[c] = "delete_commit"
    /\ lock = c
    /\ table' = DeleteById(table, req[c].sid)
    /\ lock' = NoClient
    /\ pc' = [pc EXCEPT ![c] = "idle"]
    /\ req' = [req EXCEPT ![c] = Idle]
    /\ last' = Response(req[c].request, "delete_string", 204, NoBody)
    /\ UNCHANGED unit

\* ------------------------------------------------------------ the endpoints

\* an endpoint is called on an idle worker and runs up to its first statement
\* that can wait
endpoint_call(c, endpoint, r, now) ==
    /\ pc[c] = "idle"
    /\ IF endpoint = "create_string" THEN create_string(c, r, now)
       ELSE IF endpoint = "get_string" THEN get_string(c, r)
       ELSE IF endpoint = "list_strings" THEN list_strings(c, r)
       ELSE IF endpoint = "filter_by_nl" THEN filter_by_nl(c, r)
       ELSE delete_string(c, r)
    /\ UNCHANGED unit

\* the query parameters of GET /strings the clients send
ListParams ==
    {NoFilters,
     "is_palindrome" :> TRUE,
     ("min_length" :> 3) @@ ("max_length" :> 2),
     "contains_character" :> <<"b">>,
     "contains_character" :> <<"a", "b">>}

\* the natural-language queries the clients send
NlQueries ==
    {Palindrom \o <<"i", "c">>,
     LongerThan \o <<"2">>,
     <<"b", "a", "n", "a", "n", "a">>}

Call(endpoint, r) == [endpoint |-> endpoint, request |-> r]

\* the calls of the sequential runs
Calls ==
    {Call("create_string", Post(v)) : v \in Values}
    \cup {Call("get_string", Get(v)) : v \in Values}
    \cup {Call("delete_string", Delete(v)) : v \in Values}
    \cup {Call("list_strings", List(p)) : p \in ListParams}
    \cup {Call("filter_by_nl", NlFilter(q)) : q \in NlQueries}
    \cup {Call("create_string", PostEmpty)}

\* the calls of the concurrent runs: every endpoint, the reads once each
ConcurrentCalls ==
    {Call("create_string", Post(v)) : v \in ConcurrentValues}
    \cup {Call("get_string", Get(v)) : v \in ConcurrentValues}
    \cup {Call("delete_string", Delete(v)) : v \in ConcurrentValues}
    \cup {Call("list_strings", List(NoFilters)),
          Call("filter_by_nl", NlFilter(Palindrom \o <<"i", "c">>))}

\* the readings of the clock a call can see (only create_string reads it)
Clock(endpoint) == IF endpoint = "create_string" THEN Times ELSE {1}

\* The endpoints called concurrently, each on its own connection.
Next ==
    \E c \in Clients :
        \/ \E k \in ConcurrentCalls : \E now \in Clock(k.endpoint) :
              endpoint_call(c, k.endpoint, k.request, now)
        \/ create_insert(c)
        \/ create_commit(c)
        \/ delete_commit(c)

Spec == Init /\ [][Next]_vars

\* ------------------------------------------------------------ sequential runs

AllIdle == \A c \in Clients : pc[c] = "idle"

\* a call made when no other is in flight
seq_call(c, endpoint, r, now) == AllIdle /\ endpoint_call(c, endpoint, r, now)

SeqNext ==
    \E c \in Clients :
        \/ \E k \in Calls : \E now \in Clock(k.endpoint) :
              seq_call(c, k.endpoint, k.request, now)
        \/ create_insert(c)
        \/ create_commit(c)
        \/ delete_commit(c)

SeqSpec == Init /\ [][SeqNext]_vars

\* ------------------------------------------------------------ the application

\* a request arrives at an idle worker, and the router answers it or calls the
\* endpoint it picks
http_request(c, r, now) ==
    LET endpoint == Dispatch(r.method, r.path)
    IN  IF endpoint = "method_not_allowed"
        THEN /\ pc[c] = "idle"
             /\ last' = Response(r, endpoint, 405, Detail("Method Not Allowed"))
             /\ UNCHANGED <<table, lock, pc, req, unit>>
        ELSE IF endpoint = "not_found"
        THEN /\ pc[c] = "idle"
             /\ last' = Response(r, endpoint, 404, Detail("Not Found"))
             /\ UNCHANGED <<table, lock, pc, req, unit>>
        ELSE endpoint_call(c, endpoint, r, now)

\* the requests the clients send: a path segment is not empty and holds no "/"
Requests ==
    {Post(v) : v \in ConcurrentValues} \cup {Get(v) : v \in ConcurrentValues}
    \cup {Delete(v) : v \in ConcurrentValues} \cup {List(p) : p \in ListParams}
    \cup {NlFilter(q) : q \in NlQueries}
    \cup {PostEmpty, DeleteAll, GetUnrouted}

HttpNext ==
    \E c \in Clients :
        \/ \E r \in Requests :
              \E now \in Clock(Dispatch(r.method, r.path)) : http_request(c, r, now)
        \/ create_insert(c)
        \/ create_commit(c)
        \/ delete_commit(c)

HttpSpec == Init /\ [][HttpNext]_vars

\* ------------------------------------------------------------ direct calls

\* the strings of at most n characters
UnitChars == {"a", "B", " "}
Strings(n) == UNION {[1..k -> UnitChars] : k \in 0..n}

\* an optional filter: <<>> when absent, <<v>> when present with value v
Optional(S) == {<<>>} \cup {<<v>> : v \in S}

Part(name, option) == IF option = <<>> THEN NoFilters ELSE name :> option[1]

CharacterOptions == {<<>>, <<"a">>, <<" ">>, <<"a", "B">>}

FilterSet(pal, min, max, words, ch) ==
    Part("is_palindrome", pal) @@ Part("min_length", min) @@ Part("max_length", max)
    @@ Part("word_count", words) @@ Part("contains_character", ch)

\* apply_filters_row called on the stored properties of a string; a Python
\* call either returns a value or raises
call_apply_filters_row ==
    /\ unit.fn = "none"
    /\ \E value \in Strings(MaxLen) :
          \E pal \in Optional(BOOLEAN), min \in Optional(0..MaxBound),
             max \in Optional(0..MaxBound), words \in Optional(0..MaxBound),
             ch \in Optional(CharacterOptions) :
             LET props == json_loads(json_dumps(analyze_string(value)))
                 filters == FilterSet(pal, min, max, words, ch)
             IN  unit' = [fn |-> "apply_filters_row", props |-> props,
                          filters |-> filters, raised |-> FALSE,
                          result |-> apply_filters_row(props, filters)]
    /\ UNCHANGED <<table, lock, pc, req, last>>

Fragments ==
    << StringsSeg \o <<" ">>,
       <<"L">> \o Tail(LongerThan),
       <<"1">>,
       <<"0">>,
       Palindrom \o <<"i", "c", " ">>,
       OneWord \o <<" ">>,
       Contain \o <<"s">> \o TheLetter \o <<"z", " ">> >>

RECURSIVE Concat(_)
Concat(fs) == IF fs = <<>> THEN <<>> ELSE Fragments[Head(fs)] \o Concat(Tail(fs))

\* the queries made of at most n fragments
Queries(n) == {Concat(fs) : fs \in UNION {[1..k -> 1..Len(Fragments)] : k \in 0..n}}

\* the parse of filter_by_nl called on a query
call_parse_nl ==
    /\ unit.fn = "none"
    /\ \E query \in Queries(MaxFrags) :
          unit' = [fn |-> "parse_nl", query |-> query, raised |-> FALSE,
                   result |-> parse_nl(query)]
    /\ UNCHANGED <<table, lock, pc, req, last>>

UnitNext == call_apply_filters_row \/ call_parse_nl

UnitSpec == Init /\ [][UnitNext]_vars

\* ------------------------------------------------------------ claims

\* a row with this value is in the table
Stored(rows, value) == \E i \in 1..Len(rows) : rows[i].value = value

RowsOf(rows) == {rows[i] : i \in 1..Len(rows)}

\* C1: a POST /strings whose SELECT meets a stored row of the value is
\* answered 409, and the table after it is the table before it: the row's id,
\* value, properties and created_at are as they were and no row is added.
C1_ConflictLeavesStore ==
    [][\A c \in Clients, v \in Values, now \in Times :
          (Stored(table, v) /\ endpoint_call(c, "create_string", Post(v), now))
          => /\ last' = Response(Post(v), "create_string", 409,
                                 Detail("String already exists"))
             /\ table' = table
             /\ pc'[c] = "idle"]_vars

C1_Witness ==
    /\ last.endpoint = "create_string"
    /\ last.status = 409
    /\ Stored(table, last.request.body["value"])

\* C2: in every reachable state no two rows of the table have the same id.
C2_UniqueIds ==
    \A i, j \in 1..Len(table) : table[i].id = table[j].id => i = j

\* two creates of one value both passed the SELECT, and one of them has
\* committed its row while the other still stands before its INSERT
C2_Witness ==
    \E c \in Clients :
        /\ pc[c] = "insert"
        /\ \E i \in 1..Len(table) : table[i].id = req[c].payload.id

\* C3 (as claimed): every POST /strings that carries a value ends in 201 or
\* in 409, whatever the interleaving.
C3_CreateEnds201Or409 ==
    (last.endpoint = "create_string" /\ Has(last.request.body, "value"))
    => last.status \in {201, 409}

\* C4 (as claimed): a GET of /strings/filter-by-natural-language with a query
\* is answered by filter_by_nl, 200 with interpreted_query when a rule fires
\* and 400 when none does, never by get_string and never with 404.
C4_NlRequestReachesFilter ==
    (/\ last.request.method = "GET"
     /\ last.request.path = <<StringsSeg, NlSeg>>
     /\ Has(last.request.query, "query"))
    => /\ last.endpoint = "filter_by_nl"
       /\ IF DOMAIN parse_nl(last.request.query["query"]) # {}
          THEN last.status = 200 /\ Has(last.body, "interpreted_query")
          ELSE last.status = 400

\* the numbers N of the occurrences of "longer than N" in the lowered query
LongerThanNumbers(query) ==
    LET q == Strip(LowerStr(query))
    IN  {DigitRun(q, i + Len(LongerThan), 0) : i \in NumberAfter(q, LongerThan)}

\* C5 (as claimed): the parse of a query that contains "longer than N" has
\* min_length = N + 1, for an N that occurs so in the query.
C5_LongerThanIsExclusive ==
    (unit.fn = "parse_nl" /\ LongerThanNumbers(unit.query) # {})
    => /\ Has(unit.result, "min_length")
       /\ \E n \in LongerThanNumbers(unit.query) : unit.result["min_length"] = n + 1

\* C6: a 201 carries the analysis of the value; and while the row of a
\* created value is in the table, GET /strings/{value} is answered 200 with
\* that value and with properties that, read back from the stored text, are
\* the analysis of the value.
C6_Step ==
    /\ \A c \in Clients :
          create_commit(c)
          => /\ last'.status = 201
             /\ last'.body.properties = analyze_string(last'.body.value)
             /\ Stored(table', last'.body.value)
    /\ \A c \in Clients, v \in Values :
          (Stored(table, v) /\ seq_call(c, "get_string", Get(v), 1))
          => /\ last'.endpoint = "get_string"
             /\ last'.status = 200
             /\ last'.body.value = v
             /\ last'.body.properties = analyze_string(v)
             /\ last'.body.id = sha256_hash(v)

C6_RoundTrip == [][C6_Step]_vars

C6_Witness ==
    /\ last.endpoint = "get_string"
    /\ last.status = 200
    /\ last.body.value = <<"A", " ", "a">>
    /\ last.body.properties = analyze_string(<<"A", " ", "a">>)

\* C7: with one request at a time, a DELETE of a stored value is answered 204
\* and removes the row of that value and no other; while no row of a value is
\* stored, GET and DELETE of it are answered 404 and change nothing, and a
\* POST of it goes on to insert its row and is answered 201.
C7_Step ==
    /\ \A c \in Clients, v \in Values :
          (Stored(table, v) /\ seq_call(c, "delete_string", Delete(v), 1))
          => pc'[c] = "delete_commit" /\ table' = table
    /\ \A c \in Clients :
          delete_commit(c)
          => LET v == req[c].request.path[2]
             IN  /\ last' = Response(Delete(v), "delete_string", 204, NoBody)
                 /\ ~Stored(table', v)
                 /\ table' = SelectSeq(table, LAMBDA r : r.value # v)
                 /\ Len(table') = Len(table) - 1
    /\ \A c \in Clients, v \in Values :
          (~Stored(table, v) /\ seq_call(c, "get_string", Get(v), 1))
          => last'.status = 404 /\ last'.request = Get(v) /\ table' = table
    /\ \A c \in Clients, v \in Values :
          (~Stored(table, v) /\ seq_call(c, "delete_string", Delete(v), 1))
          => /\ last'.status = 404 /\ last'.request = Delete(v)
             /\ table' = table /\ pc'[c] = "idle"
    /\ \A c \in Clients, v \in Values, now \in Times :
          (~Stored(table, v) /\ seq_call(c, "create_string", Post(v), now))
          => pc'[c] = "insert"
    /\ \A c \in Clients :
          create_insert(c) => pc'[c] = "commit"
    /\ \A c \in Clients :
          create_commit(c)
          => /\ last'.status = 201
             /\ last'.request = req[c].request
             /\ Stored(table', req[c].request.body["value"])

C7_DeleteLifecycle == [][C7_Step]_vars

\* a DELETE has been answered 204 and the row of the other value is still there
C7_Witness ==
    /\ last.endpoint = "delete_string"
    /\ last.status = 204
    /\ ~Stored(table, last.request.path[2])
    /\ Len(table) = 1

\* every filter present holds of the properties
Matches(props, filters) ==
    /\ Has(filters, "is_palindrome") => props.is_palindrome = filters["is_palindrome"]
    /\ Has(filters, "min_length") => props.length >= filters["min_length"]
    /\ Has(filters, "max_length") => props.length <= filters["max_length"]
    /\ Has(filters, "word_count") => props.word_count = filters["word_count"]
    /\ Has(filters, "contains_character")
       => \E i \in 1..Len(props.character_frequency_map) :
             <<props.character_frequency_map[i][1]>> = filters["contains_character"]

\* C8: apply_filters_row is true exactly when every filter present holds of
\* the properties; the empty filter set matches every record, and a filter
\* set with min_length > max_length matches none.
C8_MatchesIsConjunction ==
    unit.fn = "apply_filters_row"
    => /\ unit.result <=> Matches(unit.props, unit.filters)
       /\ DOMAIN unit.filters = {} => unit.result
       /\ (/\ Has(unit.filters, "min_length") /\ Has(unit.filters, "max_length")
           /\ unit.filters["min_length"] > unit.filters["max_length"])
          => ~unit.result

\* a record that matches a filter set with all five filters present
C8_Witness ==
    /\ unit.fn = "apply_filters_row"
    /\ DOMAIN unit.filters = {"is_palindrome", "min_length", "max_length",
                                "word_count", "contains_character"}
    /\ unit.filters["min_length"] = unit.filters["max_length"]
    /\ unit.result

\* C9 (as claimed): the filter engine, given a contains_character that is
\* not exactly one character, reports an error: it does not return.
C9_BadCharacterIsAnError ==
    (/\ unit.fn = "apply_filters_row"
     /\ DOMAIN unit.filters = {"contains_character"}
     /\ Len(unit.filters["contains_character"]) # 1)
    => unit.raised

\* C10, of a state: every row's id is the hash of its value and the hash its
\* properties hold, and its properties are the analysis of its value.
C10_Rows ==
    \A i \in 1..Len(table) :
        LET r == table[i]
            props == json_loads(r.properties)
        IN  /\ r.id = sha256_hash(r.value)
            /\ r.id = props.sha256_hash
            /\ props = analyze_string(r.value)

\* C10, of a step: the table changes only by the commit of a create, which is
\* answered 201 and appends one row, or by the commit of a delete, which is
\* answered 204 and removes rows; a row that stays is as it was.
C10_Step ==
    /\ table' # table
       => \/ \E c \in Clients :
                /\ create_commit(c)
                /\ last'.status = 201
                /\ Len(table') = Len(table) + 1
                /\ SubSeq(table', 1, Len(table)) = table
          \/ \E c \in Clients :
                /\ delete_commit(c)
                /\ last'.status = 204
                /\ RowsOf(table') \subseteq RowsOf(table)
    /\ \A r \in RowsOf(table) :
          r \in RowsOf(table') \/ ~\E s \in RowsOf(table') : s.id = r.id

C10_StoreInvariant == []C10_Rows /\ [][C10_Step]_vars

\* two rows are stored, and the response last sent is a list or a 404
C10_Witness ==
    /\ Len(table) = 2
    /\ C10_Rows
    /\ last.endpoint \in {"list_strings", "get_string"}

====
